---- MODULE Spec2Model ----
(***************************************************************************)
(* DataForgeAI backend: a FastAPI application with one route,              *)
(* POST /process_url, whose body is validated against URLData              *)
(* (urls: dict[str, Any]) and which answers {"status": "received"}.        *)
(* A CORSMiddleware configured with wildcards wraps the application.       *)
(*                                                                         *)
(* A request travels through the stages                                    *)
(*   cors -> route -> body -> validate -> endpoint -> send -> done         *)
(* Several requests may be in flight at once (one slot each); the only     *)
(* thing they could share is the module-level state `effects`.             *)
(***************************************************************************)
EXTENDS Integers, Sequences, FiniteSets, TLC

VARIABLES slots, effects

vars == <<slots, effects>>

---------------------------------------------------------------------------
(* Bounds of the model *)

\* number of distinct keys a submitted `urls` mapping may use
MaxKeys == 2
\* number of requests that may be in flight at the same time
MaxInFlight == 2

---------------------------------------------------------------------------
(* JSON values, as json.loads hands them to the validator *)

JNull == [t |-> "null"]
JBool(b) == [t |-> "boolean", b |-> b]
JNum(n) == [t |-> "number", n |-> n]
JStr(s) == [t |-> "string", s |-> s]
JList(l) == [t |-> "array", items |-> l]
JObj(f) == [t |-> "object", members |-> f]

EmptyMembers == [k \in {} |-> JNull]

AllKeys == <<"https://a.example/", "https://b.example/page", "tab-3", "">>
Keys == {AllKeys[i] : i \in 1..MaxKeys}

\* values a `urls` mapping may carry: every JSON type
Values ==
    {JNull, JBool(TRUE), JNum(0), JStr("title"), JList(<<>>), JObj(EmptyMembers)}

\* the members of every JSON object over Keys
UrlMaps == UNION {[K -> Values] : K \in SUBSET Keys}

\* values of `urls` that are not JSON objects
NonMaps ==
    {JNull, JBool(FALSE), JNum(1), JStr("https://a.example/"), JStr(""),
     JList(<<>>), JList(<<JList(<<JStr("k"), JNum(1)>>)>>)}

UrlsValues == {JObj(m) : m \in UrlMaps} \cup NonMaps

\* values of a top-level field the schema does not declare
ExtraValues == {JNum(7), JStr("x"), JObj(EmptyMembers)}

ObjectBodies ==
    {JObj(EmptyMembers)}
        \cup {JObj([tab |-> e]) : e \in ExtraValues}
        \cup {JObj([urls |-> u]) : u \in UrlsValues}
        \cup {JObj([urls |-> u, tab |-> e]) : u \in UrlsValues, e \in ExtraValues}

NonObjectBodies ==
    {JNull, JBool(TRUE), JNum(1), JStr("urls"), JList(<<>>),
     JList(<<JObj([urls |-> JObj(EmptyMembers)])>>)}

\* the bytes of a request body: nothing, bytes that are no JSON text, or
\* the text of a JSON value
EmptyBody == [kind |-> "empty"]
MalformedBody == [kind |-> "malformed"]
JsonText(v) == [kind |-> "text", value |-> v]

Bodies ==
    {EmptyBody, MalformedBody}
        \cup {JsonText(v) : v \in ObjectBodies \cup NonObjectBodies}

---------------------------------------------------------------------------
(* Requests *)

\* a URL path: its segments, and whether it ends in a slash
Path(segs, slash) == [segs |-> segs, slash |-> slash]
ProcessUrlPath == Path(<<"process_url">>, FALSE)
Paths ==
    {ProcessUrlPath, Path(<<"process_url">>, TRUE), Path(<<>>, TRUE),
     Path(<<"docs">>, FALSE), Path(<<"openapi.json">>, FALSE),
     Path(<<"process_url", "x">>, FALSE)}

ALL_METHODS == {"DELETE", "GET", "HEAD", "OPTIONS", "PATCH", "POST", "PUT"}
Methods == ALL_METHODS \cup {"TRACE", "PROPFIND"}

NoHeader == "none"
Origins == {"https://a.example", "chrome-extension://abcdefgh"}
HeaderNames == {"content-type", "x-extension-token"}

\* a Content-Type header: main type and the "+"-separated parts of its subtype
ContentType(main, sub) == [maintype |-> main, subtype |-> sub]
NoContentType == ContentType("", <<>>)
JsonContentType == ContentType("application", <<"json">>)
ContentTypes ==
    {NoContentType, JsonContentType,
     ContentType("application", <<"vnd.api", "json">>),
     ContentType("text", <<"plain">>),
     ContentType("application", <<"x-www-form-urlencoded">>)}

Request(m, p, o, am, ah, ct, b) ==
    [method |-> m, path |-> p, origin |-> o, acrMethod |-> am,
     acrHeaders |-> ah, contentType |-> ct, body |-> b]

\* POSTs to /process_url with every body and content type
PostRequests ==
    {Request("POST", ProcessUrlPath, o, NoHeader, {}, ct, b) :
        o \in Origins \cup {NoHeader}, ct \in ContentTypes, b \in Bodies}

ValidBody == JsonText(JObj([urls |-> JObj(EmptyMembers)]))

\* every method on every path
RoutingRequests ==
    {Request(m, p, o, NoHeader, {}, JsonContentType, b) :
        m \in Methods, p \in Paths, o \in Origins \cup {NoHeader},
        b \in {EmptyBody, ValidBody}}

\* OPTIONS requests that carry Access-Control-Request-Method
PreflightRequests ==
    {Request("OPTIONS", p, o, am, ah, NoContentType, EmptyBody) :
        p \in {ProcessUrlPath, Path(<<>>, TRUE)}, o \in Origins \cup {NoHeader},
        am \in Methods, ah \in SUBSET HeaderNames}

Requests == PostRequests \cup RoutingRequests \cup PreflightRequests

---------------------------------------------------------------------------
(* Responses *)

Response(status, body) ==
    [status |-> status, body |-> body, allowOrigin |-> NoHeader,
     allowMethods |-> {}, allowHeaders |-> {}]

NoResponse == Response(0, [none |-> ""])

\* FastAPI's answer to an HTTPException / RequestValidationError
ErrorResponse(status, detail) == Response(status, [detail |-> detail])

---------------------------------------------------------------------------
(* app.add_middleware(CORSMiddleware, ...) *)

\* variant: only the extension's origin is allowed
allow_origins_extension_only == {"chrome-extension://abcdefgh"}

allow_origins == {"*"}
allow_methods == {"*"}
allow_headers == {"*"}
allow_credentials == FALSE

SAFELISTED_HEADERS == {"accept", "accept-language", "content-language", "content-type"}

\* "*" stands for the standard methods
cors_allow_methods ==
    IF "*" \in allow_methods THEN ALL_METHODS ELSE allow_methods
cors_allow_headers == SAFELISTED_HEADERS \cup allow_headers
allow_all_origins == "*" \in allow_origins
allow_all_headers == "*" \in allow_headers
preflight_explicit_allow_origin == ~allow_all_origins \/ allow_credentials

is_allowed_origin(origin) == allow_all_origins \/ origin \in allow_origins

is_preflight(req) == req.method = "OPTIONS" /\ req.acrMethod # NoHeader

preflight_failures(req) ==
    (IF is_allowed_origin(req.origin) THEN {} ELSE {"origin"})
        \cup (IF req.acrMethod \in cors_allow_methods THEN {} ELSE {"method"})
        \cup (IF ~allow_all_headers /\ req.acrHeaders \ cors_allow_headers # {}
              THEN {"headers"} ELSE {})

preflight_response(req) ==
    LET failures == preflight_failures(req)
        base == IF failures = {}
                THEN Response(200, [text |-> "OK"])
                ELSE Response(400, [text |-> "Disallowed CORS", failures |-> failures])
    IN  [base EXCEPT
            !.allowOrigin =
                IF ~preflight_explicit_allow_origin THEN "*"
                ELSE IF is_allowed_origin(req.origin) THEN req.origin
                ELSE NoHeader,
            !.allowMethods = cors_allow_methods,
            !.allowHeaders =
                IF allow_all_headers THEN req.acrHeaders ELSE cors_allow_headers]

\* the headers simple_response adds to the application's response
simple_headers(req, resp) ==
    [resp EXCEPT
        !.allowOrigin =
            IF allow_all_origins THEN "*"
            ELSE IF is_allowed_origin(req.origin) THEN req.origin
            ELSE NoHeader]

---------------------------------------------------------------------------
(* app = FastAPI() and @app.post("/process_url"): the routes *)

Route(path, methods, endpoint) ==
    [path |-> path, methods |-> methods, endpoint |-> endpoint]

\* FastAPI() registers its documentation routes; a GET route also takes HEAD
DocRoutes ==
    <<Route(Path(<<"openapi.json">>, FALSE), {"GET", "HEAD"}, "openapi"),
      Route(Path(<<"docs">>, FALSE), {"GET", "HEAD"}, "swagger_ui_html"),
      Route(Path(<<"docs", "oauth2-redirect">>, FALSE), {"GET", "HEAD"},
            "swagger_ui_redirect"),
      Route(Path(<<"redoc">>, FALSE), {"GET", "HEAD"}, "redoc_html")>>

process_url_route == Route(ProcessUrlPath, {"POST"}, "process_url")

Routes == DocRoutes \o <<process_url_route>>

redirect_slashes == TRUE

\* variant: the route answers every method
FullMatch_any_method(route, method, path) == route.path = path

FullMatch(route, method, path) == route.path = path /\ method \in route.methods
PartialMatch(route, method, path) == route.path = path /\ method \notin route.methods

\* the path with its trailing slash removed, or added
ToggleSlash(path) == Path(path.segs, ~path.slash)

\* Router: the first full match, else the first partial match (405), else
\* a redirect when the path with the slash toggled matches, else 404
route_request(method, path) ==
    LET full == {i \in DOMAIN Routes : FullMatch(Routes[i], method, path)}
        partial == {i \in DOMAIN Routes : PartialMatch(Routes[i], method, path)}
    IN  IF full # {}
        THEN [kind |-> "endpoint",
              endpoint |-> Routes[CHOOSE i \in full : \A j \in full : i <= j].endpoint]
        ELSE IF partial # {}
        THEN [kind |-> "method_not_allowed", endpoint |-> ""]
        ELSE IF /\ redirect_slashes
                /\ path # Path(<<>>, TRUE)
                /\ \E i \in DOMAIN Routes : Routes[i].path = ToggleSlash(path)
        THEN [kind |-> "redirect", endpoint |-> ""]
        ELSE [kind |-> "not_found", endpoint |-> ""]

---------------------------------------------------------------------------
(* class URLData(BaseModel): urls: dict[str, Any] *)

\* variant: undeclared fields are rejected
URLData_extra_forbid == "forbid"

\* BaseModel's default: fields the model does not declare are dropped
URLData_extra == "ignore"

\* dict[str, Any]: a mapping whose keys are strings; values are not checked.
\* The keys of a JSON object are strings by construction.
is_dict_str_any(v) == v.t = "object"

NoItem == [urls |-> EmptyMembers]

Invalid(type) == [ok |-> FALSE, error |-> type, item |-> NoItem]
Valid(item) == [ok |-> TRUE, error |-> "", item |-> item]

\* variant: `urls` has a default, so it may be left out
URLData_validate_optional_urls(v) ==
    IF v.t # "object" THEN Invalid("model_attributes_type")
    ELSE IF "urls" \notin DOMAIN v.members THEN Valid(NoItem)
    ELSE IF ~is_dict_str_any(v.members.urls) THEN Invalid("dict_type")
    ELSE Valid([urls |-> v.members.urls.members])

\* variant: what dict() can convert is accepted: an empty string or array
\* becomes the empty mapping
URLData_validate_coercing(v) ==
    IF v.t # "object" THEN Invalid("model_attributes_type")
    ELSE IF "urls" \notin DOMAIN v.members THEN Invalid("missing")
    ELSE IF v.members.urls \in {JStr(""), JList(<<>>)} THEN Valid(NoItem)
    ELSE IF ~is_dict_str_any(v.members.urls) THEN Invalid("dict_type")
    ELSE Valid([urls |-> v.members.urls.members])

URLData_validate(v) ==
    IF v.t # "object" THEN Invalid("model_attributes_type")
    ELSE IF "urls" \notin DOMAIN v.members THEN Invalid("missing")
    ELSE IF ~is_dict_str_any(v.members.urls) THEN Invalid("dict_type")
    ELSE IF URLData_extra = "forbid" /\ DOMAIN v.members # {"urls"}
    THEN Invalid("extra_forbidden")
    ELSE Valid([urls |-> v.members.urls.members])

---------------------------------------------------------------------------
(* async def process_url(item: URLData) *)

\* the body parameter `item`: how the framework reads the request body
is_json_content_type(ct) ==
    \/ ct = NoContentType
    \/ /\ ct.maintype = "application"
       /\ \/ ct.subtype = <<"json">>
          \/ Len(ct.subtype) >= 2 /\ ct.subtype[Len(ct.subtype)] = "json"

NotRead == [kind |-> "unread"]

read_body(req) ==
    IF req.body.kind = "empty" THEN [ok |-> TRUE, body |-> [kind |-> "none"]]
    ELSE IF ~is_json_content_type(req.contentType)
    THEN [ok |-> TRUE, body |-> [kind |-> "bytes"]]
    ELSE IF req.body.kind = "malformed" THEN [ok |-> FALSE, body |-> NotRead]
    ELSE [ok |-> TRUE, body |-> [kind |-> "json", value |-> req.body.value]]

\* validation of what was read against the parameter's type
validate_item(body) ==
    IF body.kind = "none" THEN Invalid("missing")
    ELSE IF body.kind = "bytes" THEN Invalid("model_attributes_type")
    ELSE URLData_validate(body.value)

\* variant: another acknowledgement text
process_url_accepted(item, state) ==
    [result |-> [status |-> "accepted"], state |-> state]

\* variant: the acknowledgement reports how many urls were received
process_url_received_count(item, state) ==
    [result |-> [status |-> "received", count |-> Cardinality(DOMAIN item.urls)],
     state |-> state]

\* variant: the handler keeps what it has seen and answers a repeat differently
process_url_dedup(item, state) ==
    [result |-> [status |-> IF item \in state THEN "duplicate" ELSE "received"],
     state |-> state \cup {item}]

\* variant: the handler records every item
process_url_logging(item, state) ==
    [result |-> [status |-> "received"], state |-> state \cup {item}]

\* the handler: its return value and the module-level state it leaves
process_url(item, state) ==
    [result |-> [status |-> "received"], state |-> state]

\* a POST route's default status code
status_code == 200

---------------------------------------------------------------------------
(* One request in flight *)

Slot(pc, req, cors, body, item, resp) ==
    [pc |-> pc, req |-> req, cors |-> cors, body |-> body, item |-> item,
     resp |-> resp]

NoRequest == Request("", Path(<<>>, FALSE), NoHeader, NoHeader, {}, NoContentType, EmptyBody)

Idle == Slot("idle", NoRequest, "", NotRead, NoItem, NoResponse)

Received(req) == Slot("cors", req, "", NotRead, NoItem, NoResponse)

\* CORSMiddleware.__call__: no Origin header -> straight to the application;
\* a preflight is answered by the middleware; anything else goes to the
\* application and gets the CORS headers on the way out
cors_dispatch(s) ==
    IF s.req.origin = NoHeader THEN [s EXCEPT !.pc = "route", !.cors = "bypass"]
    ELSE IF is_preflight(s.req)
    THEN [s EXCEPT !.pc = "done", !.cors = "preflight",
                   !.resp = preflight_response(s.req)]
    ELSE [s EXCEPT !.pc = "route", !.cors = "simple"]

DocResponse(endpoint) == Response(200, [document |-> endpoint])

route_dispatch(s) ==
    LET m == route_request(s.req.method, s.req.path)
    IN  IF m.kind = "endpoint"
        THEN IF m.endpoint = "process_url"
             THEN [s EXCEPT !.pc = "body"]
             ELSE [s EXCEPT !.pc = "send", !.resp = DocResponse(m.endpoint)]
        ELSE IF m.kind = "method_not_allowed"
        THEN [s EXCEPT !.pc = "send",
                       !.resp = ErrorResponse(405, "Method Not Allowed")]
        ELSE IF m.kind = "redirect"
        THEN [s EXCEPT !.pc = "send", !.resp = Response(307, [location |-> "slash"])]
        ELSE [s EXCEPT !.pc = "send", !.resp = ErrorResponse(404, "Not Found")]

\* variant: a body that is no JSON text is not caught
body_stage_unhandled(s) ==
    LET r == read_body(s.req)
    IN  IF r.ok
        THEN [s EXCEPT !.pc = "validate", !.body = r.body]
        ELSE [s EXCEPT !.pc = "send",
                       !.resp = ErrorResponse(500, "Internal Server Error")]

body_stage(s) ==
    LET r == read_body(s.req)
    IN  IF r.ok
        THEN [s EXCEPT !.pc = "validate", !.body = r.body]
        ELSE [s EXCEPT !.pc = "send", !.resp = ErrorResponse(422, "json_invalid")]

validate_stage(s) ==
    LET v == validate_item(s.body)
    IN  IF v.ok
        THEN [s EXCEPT !.pc = "endpoint", !.item = v.item]
        ELSE [s EXCEPT !.pc = "send", !.resp = ErrorResponse(422, v.error)]

\* the call of the handler and the serialisation of what it returns
endpoint_stage(s, state) ==
    LET r == process_url(s.item, state)
    IN  [slot |-> [s EXCEPT !.pc = "send", !.resp = Response(status_code, r.result)],
         state |-> r.state]

send_stage(s) ==
    [s EXCEPT !.pc = "done",
              !.resp = IF s.cors = "simple" THEN simple_headers(s.req, s.resp)
                       ELSE s.resp]

---------------------------------------------------------------------------
(* Actions *)

\* requests of every kind for the runs with several requests in flight
SomeMap == JObj([k \in {AllKeys[1]} |-> JStr("title")])
CoreRequests ==
    {Request("POST", ProcessUrlPath, NoHeader, NoHeader, {}, JsonContentType, ValidBody),
     Request("POST", ProcessUrlPath, "https://a.example", NoHeader, {},
             JsonContentType, JsonText(JObj([urls |-> SomeMap, tab |-> JNum(7)]))),
     Request("POST", ProcessUrlPath, NoHeader, NoHeader, {}, JsonContentType,
             JsonText(JObj(EmptyMembers))),
     Request("POST", ProcessUrlPath, "https://a.example", NoHeader, {},
             JsonContentType, JsonText(JObj([urls |-> JStr("")]))),
     Request("POST", ProcessUrlPath, NoHeader, NoHeader, {}, JsonContentType,
             MalformedBody),
     Request("GET", ProcessUrlPath, "https://a.example", NoHeader, {},
             NoContentType, EmptyBody),
     Request("OPTIONS", ProcessUrlPath, "https://a.example", "POST",
             {"content-type"}, NoContentType, EmptyBody)}

Receive(i, req) ==
    /\ slots' = [slots EXCEPT ![i] = Received(req)]
    /\ UNCHANGED effects

ReceiveAny ==
    \E i \in DOMAIN slots :
        /\ slots[i].pc = "idle"
        /\ \E req \in Requests : Receive(i, req)

ReceiveCore ==
    \E i \in DOMAIN slots :
        /\ slots[i].pc = "idle"
        /\ \E req \in CoreRequests : Receive(i, req)

CorsMiddleware ==
    \E i \in DOMAIN slots :
        /\ slots[i].pc = "cors"
        /\ slots' = [slots EXCEPT ![i] = cors_dispatch(slots[i])]
        /\ UNCHANGED effects

Router ==
    \E i \in DOMAIN slots :
        /\ slots[i].pc = "route"
        /\ slots' = [slots EXCEPT ![i] = route_dispatch(slots[i])]
        /\ UNCHANGED effects

ReadBody ==
    \E i \in DOMAIN slots :
        /\ slots[i].pc = "body"
        /\ slots' = [slots EXCEPT ![i] = body_stage(slots[i])]
        /\ UNCHANGED effects

Validate ==
    \E i \in DOMAIN slots :
        /\ slots[i].pc = "validate"
        /\ slots' = [slots EXCEPT ![i] = validate_stage(slots[i])]
        /\ UNCHANGED effects

CallEndpoint ==
    \E i \in DOMAIN slots :
        /\ slots[i].pc = "endpoint"
        /\ LET r == endpoint_stage(slots[i], effects)
           IN  /\ slots' = [slots EXCEPT ![i] = r.slot]
               /\ effects' = r.state

SendResponse ==
    \E i \in DOMAIN slots :
        /\ slots[i].pc = "send"
        /\ slots' = [slots EXCEPT ![i] = send_stage(slots[i])]
        /\ UNCHANGED effects

\* the client has the response; the slot is free again
Deliver ==
    \E i \in DOMAIN slots :
        /\ slots[i].pc = "done"
        /\ slots' = [slots EXCEPT ![i] = Idle]
        /\ UNCHANGED effects

Handle ==
    \/ CorsMiddleware
    \/ Router
    \/ ReadBody
    \/ Validate
    \/ CallEndpoint
    \/ SendResponse
    \/ Deliver

\* nothing is stored, logged or forwarded when the service starts
NoEffects == {}

\* one request at a time, every request of the model
Init ==
    /\ slots = [i \in {1} |-> Idle]
    /\ effects = NoEffects

Next == ReceiveAny \/ Handle

Spec == Init /\ [][Next]_vars

\* up to MaxInFlight requests interleaved
InitConcurrent ==
    /\ slots = [i \in 1..MaxInFlight |-> Idle]
    /\ effects = NoEffects

NextConcurrent == ReceiveCore \/ Handle

SpecConcurrent == InitConcurrent /\ [][NextConcurrent]_vars

\* two requests in flight, each a POST of a payload the schema accepts
PairValues == {JNull, JStr("title")}
PairRequests ==
    {Request("POST", ProcessUrlPath, NoHeader, NoHeader, {}, JsonContentType,
             JsonText(JObj(m))) :
        m \in {[urls |-> JObj(u)] : u \in UNION {[K -> PairValues] : K \in SUBSET Keys}}
              \cup {[urls |-> JObj(u), tab |-> JNum(7)] :
                        u \in UNION {[K -> PairValues] : K \in SUBSET Keys}}}

ReceivePair ==
    \E i \in DOMAIN slots :
        /\ slots[i].pc = "idle"
        /\ \E req \in PairRequests : Receive(i, req)

InitPair ==
    /\ slots = [i \in {1, 2} |-> Idle]
    /\ effects = NoEffects

NextPair == ReceivePair \/ Handle

SpecPair == InitPair /\ [][NextPair]_vars

---------------------------------------------------------------------------
(* Vocabulary of the properties *)

Done(i) == slots[i].pc = "done"

IsPostProcessUrl(req) == req.method = "POST" /\ req.path = ProcessUrlPath

\* the acknowledgement: 200 with the body {"status": "received"} and no other key
Acknowledged(resp) ==
    /\ resp.status = 200
    /\ DOMAIN resp.body = {"status"}
    /\ resp.body.status = "received"

ClientError(resp) == resp.status >= 400 /\ resp.status <= 499

ValidationErrorTypes == {"missing", "dict_type", "model_attributes_type", "json_invalid"}

ValidationError(resp) ==
    /\ ClientError(resp)
    /\ DOMAIN resp.body = {"detail"}
    /\ resp.body.detail \in ValidationErrorTypes

\* the body is sent as JSON: the Content-Type is a JSON media type, or absent
JsonMediaTypes ==
    {NoContentType, ContentType("application", <<"json">>),
     ContentType("application", <<"vnd.api", "json">>)}

JsonObjectBody(req) ==
    /\ req.body.kind = "text"
    /\ req.body.value.t = "object"

HasField(req, name) == name \in DOMAIN req.body.value.members

\* a JSON request whose body is an object with a mapping under `urls`
ValidPayload(req) ==
    /\ req.contentType \in JsonMediaTypes
    /\ JsonObjectBody(req)
    /\ HasField(req, "urls")
    /\ req.body.value.members.urls.t = "object"

\* the response a request gets when it is the only request ever sent
RECURSIVE Run(_, _)
Run(s, state) ==
    IF s.pc = "done" THEN s
    ELSE IF s.pc = "cors" THEN Run(cors_dispatch(s), state)
    ELSE IF s.pc = "route" THEN Run(route_dispatch(s), state)
    ELSE IF s.pc = "body" THEN Run(body_stage(s), state)
    ELSE IF s.pc = "validate" THEN Run(validate_stage(s), state)
    ELSE IF s.pc = "endpoint"
    THEN Run(endpoint_stage(s, state).slot, endpoint_stage(s, state).state)
    ELSE Run(send_stage(s), state)

Alone(req) == Run(Received(req), NoEffects).resp

---------------------------------------------------------------------------
(* Properties *)

\* C1: a POST to /process_url whose JSON body (a body sent as JSON: the
\* Content-Type is a JSON media type or absent) is an object with a mapping
\* (empty or not, values of any type) under `urls` is answered 200 with
\* exactly {"status": "received"}.
C1_ValidPayloadAcknowledged ==
    \A i \in DOMAIN slots :
        (Done(i) /\ IsPostProcessUrl(slots[i].req) /\ ValidPayload(slots[i].req))
            => Acknowledged(slots[i].resp)

\* C1 witness: the empty mapping has been acknowledged
C1_Witness ==
    \E i \in DOMAIN slots :
        /\ Done(i)
        /\ IsPostProcessUrl(slots[i].req)
        /\ ValidPayload(slots[i].req)
        /\ slots[i].req.body.value.members.urls = JObj(EmptyMembers)
        /\ Acknowledged(slots[i].resp)

\* C2: a POST to /process_url whose body is a JSON object without `urls` is
\* answered with a 4xx validation error, never with the acknowledgement.
C2_MissingUrlsRejected ==
    \A i \in DOMAIN slots :
        (/\ Done(i)
         /\ IsPostProcessUrl(slots[i].req)
         /\ JsonObjectBody(slots[i].req)
         /\ ~HasField(slots[i].req, "urls"))
            => ValidationError(slots[i].resp) /\ ~Acknowledged(slots[i].resp)

\* C2 witness: a JSON object that has another field but no `urls` was rejected
C2_Witness ==
    \E i \in DOMAIN slots :
        /\ Done(i)
        /\ IsPostProcessUrl(slots[i].req)
        /\ slots[i].req.contentType = JsonContentType
        /\ JsonObjectBody(slots[i].req)
        /\ DOMAIN slots[i].req.body.value.members = {"tab"}
        /\ slots[i].resp.status = 422
        /\ slots[i].resp.body = [detail |-> "missing"]

\* C3: a POST to /process_url whose `urls` is present but no mapping (string,
\* number, boolean, list, null) is answered with a 4xx validation error,
\* never with the acknowledgement.
C3_NonMappingUrlsRejected ==
    \A i \in DOMAIN slots :
        (/\ Done(i)
         /\ IsPostProcessUrl(slots[i].req)
         /\ JsonObjectBody(slots[i].req)
         /\ HasField(slots[i].req, "urls")
         /\ slots[i].req.body.value.members.urls.t # "object")
            => ValidationError(slots[i].resp) /\ ~Acknowledged(slots[i].resp)

\* C3 witness: `urls` sent as the empty list was rejected
C3_Witness ==
    \E i \in DOMAIN slots :
        /\ Done(i)
        /\ IsPostProcessUrl(slots[i].req)
        /\ slots[i].req.contentType = JsonContentType
        /\ JsonObjectBody(slots[i].req)
        /\ HasField(slots[i].req, "urls")
        /\ slots[i].req.body.value.members.urls = JList(<<>>)
        /\ slots[i].resp.status = 422
        /\ slots[i].resp.body = [detail |-> "dict_type"]

\* a request with an Origin header; a preflight among them
CrossOrigin(req) == req.origin # NoHeader
Preflight(req) == req.method = "OPTIONS" /\ req.acrMethod # NoHeader

AllowsOrigin(resp, origin) == resp.allowOrigin \in {"*", origin}

\* the CORS layer lets the request through: a preflight is answered 200 and
\* grants the requested method and headers; any other request gets what the
\* application answers to the same request without Origin; and the response
\* allows the origin
CorsAdmits(s) ==
    /\ AllowsOrigin(s.resp, s.req.origin)
    /\ Preflight(s.req) =>
           /\ s.resp.status = 200
           /\ s.req.acrMethod \in s.resp.allowMethods
           /\ s.req.acrHeaders \subseteq s.resp.allowHeaders
    /\ ~Preflight(s.req) =>
           /\ s.resp.status = Alone([s.req EXCEPT !.origin = NoHeader]).status
           /\ s.resp.body = Alone([s.req EXCEPT !.origin = NoHeader]).body

\* C4 as stated: whatever the origin, the requested method and the requested
\* headers, the CORS layer lets a cross-origin request (a preflight too)
\* through, and the response allows the origin.
C4_NoCorsRejection ==
    \A i \in DOMAIN slots :
        (Done(i) /\ CrossOrigin(slots[i].req)) => CorsAdmits(slots[i])

\* C4 amended: the same, for every origin and every requested header set,
\* when the method a preflight requests is one of DELETE, GET, HEAD, OPTIONS,
\* PATCH, POST, PUT.
C4_NoCorsRejectionOfStandardMethods ==
    \A i \in DOMAIN slots :
        (/\ Done(i)
         /\ CrossOrigin(slots[i].req)
         /\ Preflight(slots[i].req) =>
                slots[i].req.acrMethod \in
                    {"DELETE", "GET", "HEAD", "OPTIONS", "PATCH", "POST", "PUT"})
            => CorsAdmits(slots[i])

\* C4 witness: the extension's preflight for a POST with a custom header
\* was answered 200 and allows the origin
C4_Witness ==
    \E i \in DOMAIN slots :
        /\ Done(i)
        /\ slots[i].req.origin = "chrome-extension://abcdefgh"
        /\ Preflight(slots[i].req)
        /\ slots[i].req.acrMethod = "POST"
        /\ slots[i].req.acrHeaders = {"content-type", "x-extension-token"}
        /\ slots[i].resp.status = 200
        /\ slots[i].resp.allowOrigin = "*"

\* C5: whatever was sent before and whatever is in flight at the same time,
\* the response to a request is the response it gets when it is the only
\* request ever sent.
C5_ResponseAsWhenAlone ==
    \A i \in DOMAIN slots : Done(i) => slots[i].resp = Alone(slots[i].req)

\* C5 witness: a valid and an invalid POST were in flight together and both
\* have their response
C5_Witness ==
    \E i, j \in DOMAIN slots :
        /\ i # j
        /\ Done(i) /\ Done(j)
        /\ IsPostProcessUrl(slots[i].req) /\ IsPostProcessUrl(slots[j].req)
        /\ Acknowledged(slots[i].resp)
        /\ ValidationError(slots[j].resp)

\* C6: no step of handling a request, successful or not, changes the state
\* of the service: nothing is stored, logged or forwarded.
C6_NoSideEffects == [][effects' = effects]_vars

\* C6 witness: the handler has returned for one request, another request has
\* failed validation, and nothing was kept
C6_Witness ==
    \E i, j \in DOMAIN slots :
        /\ i # j
        /\ slots[i].pc = "send"
        /\ slots[i].resp.body = [status |-> "received"]
        /\ DOMAIN slots[i].item.urls # {}
        /\ Done(j)
        /\ slots[j].resp.status = 422
        /\ effects = NoEffects

C8_ResponseIndependentOfPayload ==
    \A i, j \in DOMAIN slots :
        (/\ Done(i) /\ Done(j)
         /\ IsPostProcessUrl(slots[i].req) /\ IsPostProcessUrl(slots[j].req)
         /\ ValidPayload(slots[i].req) /\ ValidPayload(slots[j].req))
            => /\ slots[i].resp.status = slots[j].resp.status
               /\ slots[i].resp.body = slots[j].resp.body

\* C8 witness: two payloads with different numbers of urls both have their
\* response
C8_Witness ==
    \E i, j \in DOMAIN slots :
        /\ Done(i) /\ Done(j)
        /\ ValidPayload(slots[i].req) /\ ValidPayload(slots[j].req)
        /\ DOMAIN slots[i].req.body.value.members.urls.members = {}
        /\ DOMAIN slots[j].req.body.value.members.urls.members = Keys
        /\ Keys # {}
        /\ slots[i].resp.body = slots[j].resp.body

\* C9: a JSON object with a mapping under `urls` and further top-level
\* fields is acknowledged: fields the schema does not declare are ignored.
C9_ExtraFieldsIgnored ==
    \A i \in DOMAIN slots :
        (/\ Done(i)
         /\ IsPostProcessUrl(slots[i].req)
         /\ ValidPayload(slots[i].req)
         /\ DOMAIN slots[i].req.body.value.members # {"urls"})
            => Acknowledged(slots[i].resp)

\* C9 witness: a payload with the extra field `tab` was acknowledged
C9_Witness ==
    \E i \in DOMAIN slots :
        /\ Done(i)
        /\ IsPostProcessUrl(slots[i].req)
        /\ ValidPayload(slots[i].req)
        /\ DOMAIN slots[i].req.body.value.members = {"urls", "tab"}
        /\ slots[i].req.body.value.members.tab = JObj(EmptyMembers)
        /\ Acknowledged(slots[i].resp)

\* C10: only a POST to /process_url is answered {"status": "received"}; no
\* other method on /process_url and no other path ever is.
C10_OnlyPostProcessUrlAcknowledged ==
    \A i \in DOMAIN slots :
        (slots[i].pc \in {"send", "done"} /\ ~IsPostProcessUrl(slots[i].req))
            => slots[i].resp.body # [status |-> "received"]

\* C10 witness: a cross-origin PUT to /process_url with a valid payload was
\* answered 405
C10_Witness ==
    \E i \in DOMAIN slots :
        /\ Done(i)
        /\ slots[i].req.method = "PUT"
        /\ slots[i].req.path = ProcessUrlPath
        /\ CrossOrigin(slots[i].req)
        /\ slots[i].req.body = ValidBody
        /\ slots[i].resp.status = 405

====
